---- MODULE Spec2Model ----
(***************************************************************************)
(* The useAdkCommunication hook (hooks/useAdkCommunication.ts): the host   *)
(* side of the postMessage channel to the embedded ADK frame.              *)
(*                                                                         *)
(* React state cells hold the value the next render will see; the          *)
(* callbacks the hook hands out (updateContext) and the window listener    *)
(* (handleMessage) close over the context of the render that created them. *)
(*                                                                         *)
(* A URL is a sequence of tokens: <<"/", "adk">> is the root-relative      *)
(* "/adk", <<"http://adk:8000">> a bare absolute origin and                *)
(* <<"http://adk:8000", "/", "dev-ui">> an absolute URL with a path.       *)
(* An origin, as MessageEvent.origin serialises it, is a one-token URL.    *)
(***************************************************************************)
EXTENDS Integers, Sequences, FiniteSets, TLC

VARIABLES
    adkUrl,            \* the hook's first argument
    iframeRef,         \* TRUE iff iframeRef.current?.contentWindow is truthy
    isConnected,       \* useState(false)
    connectionStatus,  \* useState('disconnected')
    messages,          \* useState([]) : the message log
    context,           \* useState(initialContext) : value the next render sees
    rendered,          \* context closed over by the callbacks of the last render
    listener,          \* context closed over by the registered handleMessage
    posted,            \* envelopes handed to contentWindow.postMessage
    inflight,          \* health checks whose fetch has not settled yet
    folded,            \* history: left fold of every partial over initialContext
    last,              \* history: the event handled by the last step
    mounted,           \* TRUE until the component using the hook unmounts
    timers,            \* interval timers of the connectivity effect still set
    listeners,         \* handleMessage listeners registered on the window
    embed,             \* the AdkEmbed component rendered beside the hook
    scenario,          \* history: progress through the scenario of section 8
    probes             \* of the checks in flight, oldest first: how many were
                       \* started before the check applied last (stale) and
                       \* how many by an earlier run of the effect (orphaned)

vars == <<adkUrl, iframeRef, isConnected, connectionStatus, messages, context,
          rendered, listener, posted, inflight, folded, last, mounted, timers,
          listeners, embed, scenario, probes>>

lifecycle == <<mounted, timers, listeners>>

----------------------------------------------------------------------------
(* Bounds of the model *)

MaxLog == 2

MaxInflight == 2

----------------------------------------------------------------------------
(* Inputs *)

ownOrigin == <<"http://app:3000">>

adkOrigin == <<"http://adk:8000">>

evilOrigin == <<"http://evil:666">>

Urls ==
    { <<"/", "adk">>,
      adkOrigin,
      adkOrigin \o <<"/", "dev-ui">> }

Origins == {ownOrigin, adkOrigin, evilOrigin}

OnlyKey(k, v) == [j \in {k} |-> v]

InitialContexts == {OnlyKey("controlId", "B")}

Partials ==
    { OnlyKey("applicationId", "A"),
      OnlyKey("controlId", "A") }

EventData ==
    { [type |-> "ready"],
      [type |-> "ready", source |-> "parent-app"],
      [type |-> "error", source |-> "parent-app"],
      [type |-> "ready", source |-> "adk-ui"],
      [type |-> "error", source |-> "adk-ui", payload |-> "boom"],
      [type |-> "agent_response", source |-> "adk-ui"] }

AppMessages == {[type |-> "start_validation"]}

Times == {1}

\* How the fetch of the health URL settles: the promise rejects (transport
\* failure), or it fulfils with a response carrying an HTTP status.
FetchOutcomes ==
    {[settled |-> "rejected", status |-> 0]}
    \cup [settled : {"fulfilled"}, status : {200, 204, 404}]

----------------------------------------------------------------------------
(* Pure helpers *)

startsWith(url, tok) == Len(url) > 0 /\ url[1] = tok

\* { ...a, ...b }
Spread(a, b) ==
    [k \in DOMAIN a \cup DOMAIN b |-> IF k \in DOMAIN b THEN b[k] ELSE a[k]]

\* response.ok
ResponseOk(outcome) ==
    outcome.settled = "fulfilled" /\ outcome.status \in 200..299

\* checkConnection without the response.ok test: every response connects.
checkStatusAnyResponse(outcome) ==
    IF outcome.settled = "fulfilled" THEN "connected" ELSE "error"

\* checkConnection with the response.ok test inverted.
checkStatusInverted(outcome) ==
    IF ResponseOk(outcome) THEN "error" ELSE "connected"

\* The try/catch of checkConnection: the value passed to setConnectionStatus.
checkStatus(outcome) == IF ResponseOk(outcome) THEN "connected" ELSE "error"

expectedOrigins(url) ==
    {ownOrigin} \cup (IF startsWith(url, "/") THEN {} ELSE {url})

\* handleMessage without the origin check.
OriginAcceptedAny(url, origin) == TRUE

OriginAccepted(url, origin) == origin \in expectedOrigins(url)

\* handleMessage testing only that the data names a source.
FromAnySource(data) == "source" \in DOMAIN data

\* event.data?.source === 'adk-ui'
FromAdkUi(data) == "source" \in DOMAIN data /\ data["source"] = "adk-ui"

DataType(data) == IF "type" \in DOMAIN data THEN data["type"] ELSE "undefined"

\* new URL(url).origin of an absolute URL: scheme, host and port.
UrlOrigin(url) == SubSeq(url, 1, 1)

targetOrigin(url) == IF startsWith(url, "/") THEN ownOrigin ELSE url

fullMessage(message, t) ==
    Spread(message, [source |-> "parent-app", timestamp |-> t])

\* A handler that does not look at the sender named in the envelope.
AcceptedAnySource(url, origin, data) == OriginAccepted(url, origin)

\* The two guards of handleMessage that an event must pass.
Accepted(url, origin, data) == OriginAccepted(url, origin) /\ FromAdkUi(data)

\* A handler that falls back to the initial status on an error envelope.
statusAfterResetting(status, data) ==
    IF DataType(data) = "ready" THEN "connected"
    ELSE IF DataType(data) = "error" THEN "disconnected"
    ELSE status

\* The switch of handleMessage: the value of connectionStatus after it.
statusAfter(status, data) ==
    CASE DataType(data) = "ready" -> "connected"
      [] DataType(data) = "error" -> "error"
      [] OTHER -> status

\* The switch of handleMessage: the value of isConnected after it.
isConnectedAfter(flag, data) ==
    IF DataType(data) = "ready" THEN TRUE ELSE flag

\* The argument of the sendMessage call of case 'ready'.
initializeMessage(ctx) == [type |-> "initialize", payload |-> ctx]

\* The argument of the sendMessage call of updateContext.
contextUpdateMessage(ctx) == [type |-> "context_update", payload |-> ctx]

\* updatedContext of updateContext: the closed-over context with the partial
\* spread over it.
updatedContext(closure, partial) == Spread(closure, partial)

----------------------------------------------------------------------------
(* sendMessage(message): the log and the dispatched envelopes after the    *)
(* call, given the log before it.                                          *)

HasPeer(ref) == ref

\* sendMessage with the setMessages call outside the contentWindow test.
sendLogAlways(log, message, t) == Append(log, fullMessage(message, t))

sendLog(log, message, t) ==
    IF HasPeer(iframeRef) THEN Append(log, fullMessage(message, t)) ELSE log

sendPosted(message, t) ==
    IF HasPeer(iframeRef)
    THEN Append(posted, [to |-> targetOrigin(adkUrl), msg |-> fullMessage(message, t)])
    ELSE posted

----------------------------------------------------------------------------
(* The documented policies the properties below are stated against.        *)

\* OriginPolicy: the document's own origin, plus the origin of an absolute
\* peer target.
TrustedOrigins(url) ==
    {ownOrigin} \cup (IF startsWith(url, "/") THEN {} ELSE {UrlOrigin(url)})

\* The envelope names the peer as its sender.
SaysAdkUi(data) == "source" \in DOMAIN data /\ data["source"] = "adk-ui"

\* HealthProbe: Reachable is a fetch that completes with a success status.
Reachable(outcome) ==
    outcome.settled = "fulfilled" /\ outcome.status >= 200 /\ outcome.status < 300

ReadyEnvelope == [type |-> "ready", source |-> "adk-ui"]

ErrorEnvelope == [type |-> "error", source |-> "adk-ui", payload |-> "boom"]

\* The scenario of section 8, step by step.
ScenarioPartial == OnlyKey("applicationId", "CustomerPortal")

ScenarioError ==
    [type |-> "error", source |-> "adk-ui", payload |-> [msg |-> "boom"]]

\* The event is a message the documented policies accept.
ArrivesAccepted(ev, data) ==
    /\ ev.op = "message"
    /\ ev.origin \in TrustedOrigins(adkUrl)
    /\ ev.data = data

\* The event is a message the documented policies drop.
ArrivesDropped(ev) ==
    /\ ev.op = "message"
    /\ ~(ev.origin \in TrustedOrigins(adkUrl) /\ SaysAdkUi(ev.data))

\* Progress through the scenario after event ev: "start", then "updated"
\* (updateContext called), "available" (the embedded frame has loaded),
\* "ready" (ready accepted), "done" (error accepted); "off" once the run has
\* left the scenario.  Renders, effects, timer ticks, dropped messages and
\* the health check of the embedding component are no steps of it.
ScenarioAfter(s, ev) ==
    CASE s = "off" -> "off"
      [] ev.op \in {"render", "effect", "tick", "embedCheck"} -> s
      [] ArrivesDropped(ev) -> s
      [] s = "start" /\ ev.op = "updateContext" /\ ev.partial = ScenarioPartial
           -> "updated"
      [] s = "updated" /\ ev.op = "load" -> "available"
      [] s = "available" /\ ArrivesAccepted(ev, ReadyEnvelope) -> "ready"
      [] s = "ready" /\ ArrivesAccepted(ev, ScenarioError) -> "done"
      [] OTHER -> "off"

----------------------------------------------------------------------------
(* The AdkEmbed component (components/AdkEmbed.tsx), as far as the frame   *)
(* it embeds is concerned.                                                 *)

EmbedInit ==
    [isLoading |-> TRUE, isConnected |-> FALSE, error |-> "null",
     inflight |-> 1, frame |-> "loading", pending |-> 0, fired |-> FALSE]

\* The message of the Error that checkAdkConnection catches.
embedErrorText(outcome) ==
    IF outcome.settled = "rejected" THEN "Failed to fetch"
    ELSE "ADK server responded with status"

\* A render that never brings the iframe back once the fallback was shown.
frameAfterStuck(frame, connected, error) ==
    IF ~connected /\ error # "null" THEN "none" ELSE frame

\* The iframe element after a render: the fallback UI replaces it while
\* !isConnected && error; rendering it anew starts a new load.
frameAfter(frame, connected, error) ==
    IF ~connected /\ error # "null" THEN "none"
    ELSE IF frame = "none" THEN "loading" ELSE frame

\* No check in flight is stale or orphaned.
NoProbes == [stale |-> 0, orphaned |-> 0]

----------------------------------------------------------------------------
Init ==
    /\ adkUrl \in Urls
    /\ iframeRef = FALSE
    /\ isConnected = FALSE
    /\ connectionStatus = "disconnected"
    /\ messages = <<>>
    /\ context \in InitialContexts
    /\ rendered = context
    /\ listener = context
    /\ posted = <<>>
    /\ inflight = 1
    /\ folded = context
    /\ last = [op |-> "mount"]
    /\ mounted = TRUE
    /\ timers = 1
    /\ listeners = 1
    /\ embed = EmbedInit
    /\ scenario = "off"
    /\ probes = NoProbes

\* The application calls sendMessage.
SendMessage(m, t) ==
    /\ mounted
    /\ Len(messages) < MaxLog
    /\ messages' = sendLog(messages, m, t)
    /\ posted' = sendPosted(m, t)
    /\ last' = [op |-> "sendMessage", msg |-> m]
    /\ UNCHANGED <<adkUrl, iframeRef, isConnected, connectionStatus, context,
                   rendered, listener, inflight, folded>>
    /\ scenario' = ScenarioAfter(scenario, last')
    /\ UNCHANGED <<lifecycle, embed, probes>>

\* The application calls updateContext(partial), the callback handed out by
\* the last render.
UpdateContext(p, t) ==
    LET u == updatedContext(rendered, p)
        m == contextUpdateMessage(u)
    IN  /\ mounted
        /\ HasPeer(iframeRef) => Len(messages) < MaxLog
        /\ context' = u
        /\ messages' = sendLog(messages, m, t)
        /\ posted' = sendPosted(m, t)
        /\ folded' = Spread(folded, p)
        /\ last' = [op |-> "updateContext", partial |-> p, call |-> <<m>>]
        /\ UNCHANGED <<adkUrl, iframeRef, isConnected, connectionStatus,
                       rendered, listener, inflight>>
        /\ scenario' = ScenarioAfter(scenario, last')
        /\ UNCHANGED <<lifecycle, embed, probes>>

\* A handler that clears the context when the peer reports an error.
contextClearedOnError(ctx, data) ==
    IF DataType(data) = "error" THEN <<>> ELSE ctx

\* The context after handleMessage: no branch of it calls setContext.
contextAfterMessage(ctx, data) == ctx

\* A log that puts the received envelope in front of the earlier entries.
receiveLogInFront(log, data) == <<data>> \o log

\* setMessages(prev => [...prev, event.data]) of handleMessage.
receiveLog(log, data) == Append(log, data)

\* The window dispatches a message event to the registered handleMessage.
HandleMessage(origin, data, t) ==
    LET ok == Accepted(adkUrl, origin, data)
        ready == ok /\ DataType(data) = "ready"
        m == initializeMessage(listener)
        log == receiveLog(messages, data)
    IN  /\ listeners > 0
        /\ ok => Len(messages) < MaxLog
        /\ messages' = IF ~ok THEN messages
                       ELSE IF ready THEN sendLog(log, m, t) ELSE log
        /\ posted' = IF ready THEN sendPosted(m, t) ELSE posted
        /\ isConnected' = IF ok THEN isConnectedAfter(isConnected, data)
                          ELSE isConnected
        /\ connectionStatus' = IF ok THEN statusAfter(connectionStatus, data)
                               ELSE connectionStatus
        /\ last' = [op |-> "message", origin |-> origin, data |-> data,
                    call |-> IF ready THEN <<m>> ELSE <<>>]
        /\ context' = IF ok THEN contextAfterMessage(context, data) ELSE context
        /\ UNCHANGED <<adkUrl, iframeRef, rendered, listener, inflight, folded>>
        /\ scenario' = ScenarioAfter(scenario, last')
        /\ UNCHANGED <<lifecycle, embed, probes>>

\* React renders the hook again after setContext: the callbacks it returns
\* close over the new context.  Pending effects are flushed before a render.
Render ==
    /\ mounted
    /\ context # rendered
    /\ listener = rendered
    /\ rendered' = context
    /\ last' = [op |-> "render"]
    /\ UNCHANGED <<adkUrl, iframeRef, isConnected, connectionStatus, messages,
                   context, listener, posted, inflight, folded>>
    /\ scenario' = ScenarioAfter(scenario, last')
    /\ UNCHANGED <<lifecycle, embed, probes>>

\* A cleanup that leaves the registration in place.
listenersKept(n) == n

\* The cleanup of the listener effect: removeEventListener.
listenersAfterCleanup(n) == n - 1

\* A listener effect that registers its handler twice.
listenersSubscribedTwice(n) == n + 2

\* The listener effect: addEventListener.
listenersAfterSubscribe(n) == n + 1

\* A cleanup that leaves the interval running.
timersKept(n) == n

\* The cleanup of the connectivity effect: clearInterval.
timersAfterCleanup(n) == n - 1

\* The connectivity effect: setInterval.
timersAfterSet(n) == n + 1

\* The listener effect runs after the commit: the old handleMessage is
\* removed and the one of the last render is registered.
Resubscribe ==
    /\ mounted
    /\ listener # rendered
    /\ listener' = rendered
    /\ last' = [op |-> "effect"]
    /\ listeners' = listenersAfterSubscribe(listenersAfterCleanup(listeners))
    /\ UNCHANGED <<adkUrl, iframeRef, isConnected, connectionStatus, messages,
                   context, rendered, posted, inflight, folded>>
    /\ scenario' = ScenarioAfter(scenario, last')
    /\ UNCHANGED <<mounted, timers, embed, probes>>

\* An interval timer that gives up once the status is error.
StartCheckUntilError ==
    /\ timers > 0
    /\ connectionStatus # "error"
    /\ inflight < MaxInflight
    /\ inflight' = inflight + 1
    /\ last' = [op |-> "tick"]
    /\ UNCHANGED <<adkUrl, iframeRef, isConnected, connectionStatus, messages,
                   context, rendered, listener, posted, folded>>
    /\ scenario' = ScenarioAfter(scenario, last')
    /\ UNCHANGED <<lifecycle, embed, probes>>

\* The interval timer fires: checkConnection starts and awaits its fetch.
StartCheck ==
    /\ timers > 0
    /\ inflight < MaxInflight
    /\ inflight' = inflight + 1
    /\ last' = [op |-> "tick"]
    /\ UNCHANGED <<adkUrl, iframeRef, isConnected, connectionStatus, messages,
                   context, rendered, listener, posted, folded>>
    /\ scenario' = ScenarioAfter(scenario, last')
    /\ UNCHANGED <<lifecycle, embed, probes>>

\* A checkConnection whose rejected fetch escapes: no catch, no assignment.
checkAssignmentsEscaping(outcome) ==
    IF outcome.settled = "rejected" THEN <<>> ELSE <<checkStatus(outcome)>>

\* The setConnectionStatus calls one run of checkConnection makes, in order.
checkAssignments(outcome) == <<checkStatus(outcome)>>

\* The bookkeeping of the checks in flight after the i-th oldest settled:
\* the checks started before it are stale from now on.
probesAfter(p, i) ==
    [stale |-> IF i <= p.stale THEN p.stale - 1 ELSE i - 1,
     orphaned |-> IF i <= p.orphaned THEN p.orphaned - 1 ELSE p.orphaned]

\* A check that also copies its result into the isConnected flag.
CompleteCheckAtSettingFlag(i, outcome) ==
    LET assigned == checkAssignments(outcome)
    IN  /\ i \in 1..inflight
        /\ inflight' = inflight - 1
        /\ probes' = probesAfter(probes, i)
        /\ connectionStatus' = IF mounted /\ assigned # <<>>
                               THEN assigned[Len(assigned)]
                               ELSE connectionStatus
        /\ isConnected' = IF mounted THEN ResponseOk(outcome) ELSE isConnected
        /\ last' = [op |-> "check", outcome |-> outcome,
                    from |-> connectionStatus, assigned |-> assigned,
                    late |-> i <= probes.stale,
                    orphan |-> i <= probes.orphaned]
        /\ UNCHANGED <<adkUrl, iframeRef, messages, context, rendered,
                       listener, posted, folded>>
        /\ scenario' = ScenarioAfter(scenario, last')
        /\ UNCHANGED <<lifecycle, embed>>

\* The fetch of the i-th oldest checkConnection in flight settles and the
\* check finishes.  React drops a state update of a component that has
\* unmounted.
CompleteCheckAt(i, outcome) ==
    LET assigned == checkAssignments(outcome)
    IN  /\ i \in 1..inflight
        /\ inflight' = inflight - 1
        /\ probes' = probesAfter(probes, i)
        /\ connectionStatus' = IF mounted /\ assigned # <<>>
                               THEN assigned[Len(assigned)]
                               ELSE connectionStatus
        /\ last' = [op |-> "check", outcome |-> outcome,
                    from |-> connectionStatus, assigned |-> assigned,
                    late |-> i <= probes.stale,
                    orphan |-> i <= probes.orphaned]
        /\ UNCHANGED <<adkUrl, iframeRef, isConnected, messages, context,
                       rendered, listener, posted, folded>>
        /\ scenario' = ScenarioAfter(scenario, last')
        /\ UNCHANGED <<lifecycle, embed>>

\* The fetch of the oldest checkConnection in flight settles.  Where the
\* checks are not told apart (no stale and no orphaned ones) every order of
\* settling gives the same steps on all the other variables.
CompleteCheck(outcome) == CompleteCheckAt(1, outcome)

\* The component renders the hook with another adkUrl: the callbacks are
\* re-created, the listener effect re-subscribes, and the connectivity
\* effect is cleaned up and run again (clearInterval, an immediate
\* checkConnection, a new interval).  Fetches in flight are left alone.
ChangeAdkUrl(u) ==
    /\ mounted
    /\ u # adkUrl
    /\ inflight < MaxInflight
    /\ adkUrl' = u
    /\ inflight' = inflight + 1
    /\ probes' = [probes EXCEPT !.orphaned = inflight]
    /\ rendered' = context
    /\ listener' = context
    /\ listeners' = listenersAfterSubscribe(listenersAfterCleanup(listeners))
    /\ timers' = timersAfterSet(timersAfterCleanup(timers))
    /\ last' = [op |-> "adkUrl", url |-> u]
    /\ scenario' = ScenarioAfter(scenario, last')
    /\ UNCHANGED <<iframeRef, isConnected, connectionStatus, messages, context,
                   posted, folded, mounted, embed>>

\* The iframe of AdkEmbed fires onLoad: handleIframeLoad.
EmbedIframeLoad ==
    /\ mounted
    /\ embed.frame = "loading"
    /\ embed.inflight < MaxInflight
    /\ embed' = [embed EXCEPT !.isLoading = FALSE, !.frame = "loaded",
                              !.inflight = @ + 1]
    /\ last' = [op |-> "load"]
    /\ scenario' = ScenarioAfter(scenario, last')
    /\ UNCHANGED <<adkUrl, iframeRef, isConnected, connectionStatus, messages,
                   context, rendered, listener, posted, inflight, folded,
                   lifecycle, probes>>

\* A cleanup that leaves the timeout set.
pendingKept(n, fired) == n

\* The cleanup of the initialize effect, clearTimeout(timeoutId): the
\* timeouts still set after it, given whether that timeout has fired.
pendingAfterCleanup(n, fired) == IF fired THEN n ELSE n - 1

\* The initialize effect of AdkEmbed runs again because one of its
\* dependencies changed: the cleanup of the previous run, if that run had
\* set a timeout, then a new timeout if isConnected && iframeRef.current.
initializeEffect(e, connected, hasFrame) ==
    LET armed == e.pending > 0 \/ e.fired
        cleared == IF armed THEN pendingAfterCleanup(e.pending, e.fired)
                   ELSE e.pending
    IN  [pending |-> IF connected /\ hasFrame THEN cleared + 1 ELSE cleared,
         fired |-> FALSE]

\* onError?.(...) in the catch of checkAdkConnection: the number of calls
\* one finished check makes.
onErrorCalls(outcome) == IF ResponseOk(outcome) THEN 0 ELSE 1

\* The fetch of a started checkAdkConnection settles.
EmbedCompleteCheck(outcome) ==
    LET ok == ResponseOk(outcome)
        err == IF ok THEN "null" ELSE embedErrorText(outcome)
        frame == frameAfter(embed.frame, ok, err)
        init == IF ok = embed.isConnected
                THEN [pending |-> embed.pending, fired |-> embed.fired]
                ELSE initializeEffect(embed, ok, frame # "none")
    IN  /\ embed.inflight > 0
        /\ embed' = IF mounted
                    THEN [embed EXCEPT !.isConnected = ok, !.error = err,
                                       !.frame = frame,
                                       !.inflight = @ - 1,
                                       !.pending = init.pending,
                                       !.fired = init.fired]
                    ELSE [embed EXCEPT !.inflight = @ - 1]
        /\ last' = [op |-> "embedCheck", outcome |-> outcome,
                    onError |-> onErrorCalls(outcome)]
        /\ scenario' = ScenarioAfter(scenario, last')
        /\ UNCHANGED <<adkUrl, iframeRef, isConnected, connectionStatus,
                       messages, context, rendered, listener, posted, inflight,
                       folded, lifecycle, probes>>

\* The parent hands AdkEmbed another agentName, sessionToken or userId: the
\* initialize effect runs again.
EmbedPropsChange ==
    LET init == initializeEffect(embed, embed.isConnected, embed.frame # "none")
    IN  /\ mounted
        /\ embed' = [embed EXCEPT !.pending = init.pending,
                                  !.fired = init.fired]
        /\ last' = [op |-> "embedProps"]
        /\ scenario' = ScenarioAfter(scenario, last')
        /\ UNCHANGED <<adkUrl, iframeRef, isConnected, connectionStatus,
                       messages, context, rendered, listener, posted, inflight,
                       folded, lifecycle, probes>>

\* The timeout of the initialize effect fires: sendContext calls
\* AdkEmbed.sendMessage, which posts iff the iframe has a contentWindow.
EmbedSendContext ==
    /\ embed.pending > 0
    /\ embed' = [embed EXCEPT !.pending = @ - 1, !.fired = TRUE]
    /\ last' = [op |-> "embedInitialize",
                posted |-> IF embed.frame # "none" THEN 1 ELSE 0]
    /\ scenario' = ScenarioAfter(scenario, last')
    /\ UNCHANGED <<adkUrl, iframeRef, isConnected, connectionStatus, messages,
                   context, rendered, listener, posted, inflight, folded,
                   lifecycle, probes>>

\* The Retry Connection button of the fallback UI: checkAdkConnection.
EmbedRetry ==
    /\ mounted
    /\ embed.frame = "none"
    /\ embed.inflight < MaxInflight
    /\ embed' = [embed EXCEPT !.inflight = @ + 1]
    /\ last' = [op |-> "retry"]
    /\ scenario' = ScenarioAfter(scenario, last')
    /\ UNCHANGED <<adkUrl, iframeRef, isConnected, connectionStatus, messages,
                   context, rendered, listener, posted, inflight, folded,
                   lifecycle, probes>>

\* The parent renders again and hands AdkEmbed a new onError/onMessage
\* function: checkAdkConnection and handleMessage are re-created and the
\* mount effect runs again, which starts a check and re-registers the
\* listener.
EmbedEffectRerun ==
    /\ mounted
    /\ embed.inflight < MaxInflight
    /\ embed' = [embed EXCEPT !.inflight = @ + 1]
    /\ last' = [op |-> "embedEffect"]
    /\ scenario' = ScenarioAfter(scenario, last')
    /\ UNCHANGED <<adkUrl, iframeRef, isConnected, connectionStatus, messages,
                   context, rendered, listener, posted, inflight, folded,
                   lifecycle, probes>>

\* The iframe of AdkEmbed fires onError: handleIframeError.
EmbedIframeError ==
    LET err == "Failed to load ADK interface"
    IN  /\ mounted
        /\ embed.frame = "loading"
        /\ embed' = [embed EXCEPT !.isLoading = FALSE, !.error = err,
                                  !.frame = frameAfter("failed", embed.isConnected, err)]
        /\ last' = [op |-> "frameError", onError |-> 1]
        /\ scenario' = ScenarioAfter(scenario, last')
        /\ UNCHANGED <<adkUrl, iframeRef, isConnected, connectionStatus,
                       messages, context, rendered, listener, posted, inflight,
                       folded, lifecycle, probes>>

\* An origin test against the whole adkUrl string.
embedOriginRaw(url) == IF startsWith(url, "/") THEN ownOrigin ELSE url

\* adkOrigin of AdkEmbed.handleMessage.
embedOrigin(url) == IF startsWith(url, "/") THEN ownOrigin ELSE UrlOrigin(url)

\* The origin test of AdkEmbed.handleMessage.
embedOriginAccepted(url, origin) == origin = embedOrigin(url) \/ origin = ownOrigin

\* onMessage?.(event.data): the number of calls one message event makes.
onMessageCalls(url, origin, data) ==
    IF embedOriginAccepted(url, origin) /\ FromAdkUi(data) THEN 1 ELSE 0

\* The window dispatches a message event to AdkEmbed's handleMessage.
EmbedHandleMessage(origin, data) ==
    /\ mounted
    /\ last' = [op |-> "embedMessage", origin |-> origin, data |-> data,
                onMessage |-> onMessageCalls(adkUrl, origin, data)]
    /\ scenario' = ScenarioAfter(scenario, last')
    /\ UNCHANGED <<adkUrl, iframeRef, isConnected, connectionStatus, messages,
                   context, rendered, listener, posted, inflight, folded,
                   lifecycle, embed, probes>>

\* The component using the hook, and AdkEmbed with it, unmounts: React runs
\* the effect cleanups.
Unmount ==
    /\ mounted
    /\ mounted' = FALSE
    /\ listeners' = listenersAfterCleanup(listeners)
    /\ timers' = timersAfterCleanup(timers)
    /\ embed' = [embed EXCEPT
                   !.pending = IF embed.pending > 0 \/ embed.fired
                               THEN pendingAfterCleanup(@, embed.fired)
                               ELSE @]
    /\ last' = [op |-> "unmount"]
    /\ scenario' = ScenarioAfter(scenario, last')
    /\ UNCHANGED <<adkUrl, iframeRef, isConnected, connectionStatus, messages,
                   context, rendered, listener, posted, inflight, folded,
                   probes>>

Next ==
    \/ \E m \in AppMessages, t \in Times : SendMessage(m, t)
    \/ \E p \in Partials, t \in Times : UpdateContext(p, t)
    \/ \E o \in Origins, d \in EventData, t \in Times : HandleMessage(o, d, t)
    \/ Render
    \/ Resubscribe
    \/ StartCheck
    \/ \E r \in FetchOutcomes : CompleteCheck(r)

Spec == Init /\ [][Next]_vars

\* The mounted hook with its interval timer firing again and again (line
\* 201) and every fetch settling (lines 180-195).
FairSpec ==
    /\ Spec
    /\ WF_vars(StartCheck)
    /\ WF_vars(\E r \in FetchOutcomes : CompleteCheck(r))

----------------------------------------------------------------------------
(* The hook called with its default arguments ('/adk' and {}) in a         *)
(* component that also renders AdkEmbed, up to and past its unmount.  The  *)
(* inputs are those of the scenario of section 8.                          *)

EmptyContext == [k \in {} |-> "A"]

EmbeddedPartials == {ScenarioPartial, OnlyKey("controlId", "A")}

EmbeddedOrigins == {ownOrigin, evilOrigin}

EmbeddedData ==
    {ReadyEnvelope, ScenarioError, [type |-> "ready", source |-> "parent-app"]}

EmbeddedMessages ==
    { [type |-> "start_validation"],
      [type |-> "start_validation", source |-> "caller", timestamp |-> 0] }

EmbeddedOutcomes ==
    { [settled |-> "rejected", status |-> 0],
      [settled |-> "fulfilled", status |-> 200] }

EmbeddedInit ==
    /\ adkUrl = <<"/", "adk">>
    /\ iframeRef = FALSE
    /\ isConnected = FALSE
    /\ connectionStatus = "disconnected"
    /\ messages = <<>>
    /\ context = EmptyContext
    /\ rendered = context
    /\ listener = context
    /\ posted = <<>>
    /\ inflight = 1
    /\ folded = context
    /\ last = [op |-> "mount"]
    /\ mounted = TRUE
    /\ timers = 1
    /\ listeners = 1
    /\ embed = EmbedInit
    /\ scenario = "start"
    /\ probes = NoProbes

EmbeddedNext ==
    \/ \E m \in EmbeddedMessages, t \in Times : SendMessage(m, t)
    \/ \E p \in EmbeddedPartials, t \in Times : UpdateContext(p, t)
    \/ \E o \in EmbeddedOrigins, d \in EmbeddedData, t \in Times :
          HandleMessage(o, d, t)
    \/ Render
    \/ Resubscribe
    \/ StartCheck
    \/ \E r \in EmbeddedOutcomes : CompleteCheck(r)
    \/ EmbedIframeLoad
    \/ \E r \in EmbeddedOutcomes : EmbedCompleteCheck(r)
    \/ Unmount

EmbeddedSpec == EmbeddedInit /\ [][EmbeddedNext]_vars

----------------------------------------------------------------------------
\* C1: a message event whose origin is outside the trusted set of the
\* configured adkUrl (own origin, plus the origin of an absolute adkUrl) is
\* never appended to the log and changes neither connectionStatus,
\* isConnected nor the context, whatever its data.
C1_UntrustedOriginIgnored ==
    [][ (last'.op = "message" /\ last'.origin \notin TrustedOrigins(adkUrl))
        => UNCHANGED <<messages, connectionStatus, isConnected, context, posted>> ]_vars

\* An untrusted origin has delivered {type: "ready", source: "adk-ui"}.
C1_Witness ==
    /\ last.op = "message"
    /\ last.origin = evilOrigin
    /\ last.data = ReadyEnvelope
    /\ connectionStatus = "disconnected"
    /\ messages = <<>>

\* C2: a message event from a trusted origin whose data.source is missing or
\* not "adk-ui" is never appended to the log and never changes
\* connectionStatus, even with type "ready" or "error".
C2_ForeignSourceIgnored ==
    [][ (/\ last'.op = "message"
         /\ last'.origin \in TrustedOrigins(adkUrl)
         /\ ~SaysAdkUi(last'.data))
        => UNCHANGED <<messages, connectionStatus, isConnected>> ]_vars

\* The document's own origin has delivered {type: "ready", source: "parent-app"}.
C2_Witness ==
    /\ last.op = "message"
    /\ last.origin = ownOrigin
    /\ last.data = [type |-> "ready", source |-> "parent-app"]
    /\ connectionStatus = "disconnected"
    /\ messages = <<>>

\* C3: once every updateContext call has been rendered, the context equals
\* the left fold of all partials over the initial context.
C3_ContextIsLeftFold ==
    (rendered = context /\ listener = rendered) => context = folded

\* C4: {type: "ready", source: "adk-ui"} from a trusted origin leaves
\* connectionStatus at connected, whatever it was and whether or not the
\* peer handle is available.
C4_ReadyConnects ==
    (/\ last.op = "message"
     /\ last.origin \in TrustedOrigins(adkUrl)
     /\ last.data = ReadyEnvelope)
    => connectionStatus = "connected"

\* C5: each accepted ready envelope makes the hook dispatch exactly one
\* envelope to the peer.
C5_ReadyDispatchesOneInitialize ==
    [][ (/\ last'.op = "message"
         /\ Accepted(adkUrl, last'.origin, last'.data)
         /\ DataType(last'.data) = "ready")
        => (/\ Len(posted') = Len(posted) + 1
            /\ posted'[Len(posted')].msg.type = "initialize") ]_vars

\* C6: the initialize envelope the ready handler hands to sendMessage
\* carries the context current when ready is handled.
C6_InitializeCarriesCurrentContext ==
    (last.op = "message" /\ last.call # <<>>)
    => last.call[1].payload = context

\* C7: {type: "error", source: "adk-ui"} from a trusted origin leaves
\* connectionStatus at error and the envelope, payload included, is the
\* newest entry of the log.
C7_ErrorRecorded ==
    (/\ last.op = "message"
     /\ last.origin \in TrustedOrigins(adkUrl)
     /\ last.data = ErrorEnvelope)
    => (/\ connectionStatus = "error"
        /\ Len(messages) > 0
        /\ messages[Len(messages)] = ErrorEnvelope)

\* C8: an Unreachable health-check result sets connectionStatus to error
\* from every state, connected included; a Reachable result sets it to
\* connected from every state (back from error, and unchanged when already
\* connected).
C8_CheckResultSetsStatus ==
    [][ last'.op = "check"
        => connectionStatus' =
             (IF Reachable(last'.outcome) THEN "connected" ELSE "error") ]_vars

\* A failed check has taken the hook from connected to error.
C8_Witness ==
    /\ last.op = "check"
    /\ ~Reachable(last.outcome)
    /\ last.from = "connected"
    /\ connectionStatus = "error"

\* C9 as stated: a Reachable result that finds the hook disconnected does
\* not move connectionStatus to connected.
C9_ReachableAloneDoesNotConnect ==
    [][ (/\ last'.op = "check"
         /\ Reachable(last'.outcome)
         /\ connectionStatus = "disconnected")
        => connectionStatus' # "connected" ]_vars

\* C9 amended: a Reachable result that finds the hook disconnected moves
\* connectionStatus to connected by itself; no ready envelope is needed, and
\* isConnected and the log stay as they were.
C9_ReachableConnectsFromDisconnected ==
    [][ (/\ last'.op = "check"
         /\ Reachable(last'.outcome)
         /\ connectionStatus = "disconnected")
        => (/\ connectionStatus' = "connected"
            /\ UNCHANGED <<isConnected, messages>>) ]_vars

\* A successful check alone has connected the hook: nothing was received.
C9_Witness ==
    /\ last.op = "check"
    /\ Reachable(last.outcome)
    /\ last.from = "disconnected"
    /\ connectionStatus = "connected"
    /\ isConnected = FALSE
    /\ messages = <<>>

\* C10: sendMessage without a peer handle dispatches nothing, appends
\* nothing to the log and leaves connectionStatus, isConnected and the
\* context unchanged.
C10_SendWithoutPeerIsNoOp ==
    [][ (last'.op = "sendMessage" /\ ~iframeRef)
        => UNCHANGED <<messages, posted, connectionStatus, isConnected, context>> ]_vars

\* sendMessage has been called with no peer handle.
C10_Witness ==
    /\ last.op = "sendMessage"
    /\ ~iframeRef
    /\ messages = <<>>
    /\ posted = <<>>

----------------------------------------------------------------------------
(* The AdkEmbed component on its own, for every adkUrl: frame events,      *)
(* health checks, the Retry button, message events and unmount.            *)
AdkEmbedNext ==
    \/ EmbedIframeLoad
    \/ EmbedIframeError
    \/ \E r \in FetchOutcomes : EmbedCompleteCheck(r)
    \/ EmbedRetry
    \/ EmbedEffectRerun
    \/ EmbedPropsChange
    \/ EmbedSendContext
    \/ \E o \in Origins, d \in EventData : EmbedHandleMessage(o, d)
    \/ Unmount

AdkEmbedSpec == Init /\ [][AdkEmbedNext]_vars

----------------------------------------------------------------------------
(* The effects of the hook over its lifetime, with its checks told apart:  *)
(* overlapping checks settle in any order, the context and adkUrl may      *)
(* change and make the effects run again, the component may unmount.       *)
ProbeOrigins == {ownOrigin}

ProbeData == {[type |-> "ready", source |-> "adk-ui"],
              [type |-> "error", source |-> "adk-ui", payload |-> "boom"]}

ProbeOutcomes ==
    { [settled |-> "rejected", status |-> 0],
      [settled |-> "fulfilled", status |-> 200],
      [settled |-> "fulfilled", status |-> 404] }

ProbeNext ==
    \/ StartCheck
    \/ \E i \in 1..MaxInflight, r \in ProbeOutcomes : CompleteCheckAt(i, r)
    \/ \E u \in Urls : ChangeAdkUrl(u)
    \/ \E o \in ProbeOrigins, d \in ProbeData, t \in Times : HandleMessage(o, d, t)
    \/ \E q \in Partials, t \in Times : UpdateContext(q, t)
    \/ Render
    \/ Resubscribe
    \/ Unmount

ProbeSpec == Init /\ [][ProbeNext]_vars

----------------------------------------------------------------------------
(* The mounted hook left to itself: the interval timer keeps firing, every *)
(* fetch settles, and the peer may post messages; the application makes no *)
(* call.                                                                   *)
LiveOrigins == {ownOrigin, adkOrigin}

LiveData == {ReadyEnvelope, ErrorEnvelope}

LiveOutcomes ==
    { [settled |-> "rejected", status |-> 0],
      [settled |-> "fulfilled", status |-> 200] }

LiveNext ==
    \/ \E o \in LiveOrigins, d \in LiveData, t \in Times : HandleMessage(o, d, t)
    \/ StartCheck
    \/ \E r \in LiveOutcomes : CompleteCheck(r)

LiveSpec ==
    /\ Init
    /\ [][LiveNext]_vars
    /\ WF_vars(StartCheck)
    /\ WF_vars(\E r \in LiveOutcomes : CompleteCheck(r))

----------------------------------------------------------------------------
(* The peer handle as section 5 documents it: available once the embedding *)
(* surface has reported that it finished loading.                          *)
PeerDocumentedAvailable == embed.frame = "loaded"

\* The envelope sendMessage is documented to dispatch for message m.
IsStamped(env, m) ==
    /\ env.source = "parent-app"
    /\ env.timestamp \in Times
    /\ env.type = m.type
    /\ ("payload" \in DOMAIN m) => (env.payload = m.payload)

\* C11: at the end of the scenario (updateContext({applicationId:
\* "CustomerPortal"}) from context {}, the peer handle becoming available, an
\* accepted ready, an accepted error {msg: "boom"}) the context is
\* {applicationId: "CustomerPortal"}, the state is error and the log holds
\* exactly three entries: the initialize send with that context, the ready
\* and the error, and no context_update.
C11_ScenarioOutcome ==
    scenario = "done"
    => (/\ context = ScenarioPartial
        /\ connectionStatus = "error"
        /\ Len(messages) = 3
        /\ \E i \in 1..Len(messages) :
             /\ messages[i].type = "initialize"
             /\ messages[i].payload = ScenarioPartial
        /\ \E i \in 1..Len(messages) : messages[i] = ReadyEnvelope
        /\ \E i \in 1..Len(messages) : messages[i] = ScenarioError
        /\ \A i \in 1..Len(messages) : messages[i].type # "context_update")

\* C12: at the end of the scenario the three log entries come in the order
\* initialize send, received ready, received error.
C12_ScenarioOrder ==
    scenario = "done"
    => (/\ Len(messages) = 3
        /\ messages[1].type = "initialize"
        /\ messages[2] = ReadyEnvelope
        /\ messages[3] = ScenarioError)

\* C13: with the peer handle available, sendMessage dispatches exactly one
\* envelope in every connectionStatus, stamped source "parent-app" and a
\* timestamp over whatever the caller supplied, and appends exactly that
\* envelope once to the log.
C13_SendDispatchesStamped ==
    [][ (last'.op = "sendMessage" /\ PeerDocumentedAvailable)
        => (/\ Len(posted') = Len(posted) + 1
            /\ IsStamped(posted'[Len(posted')].msg, last'.msg)
            /\ messages' = Append(messages, posted'[Len(posted')].msg)) ]_vars

\* C14: every updateContext call attempts exactly one context_update send
\* whose payload is the value stored as the new context; with the peer
\* handle available the envelope is dispatched and logged, otherwise it is
\* dropped, and the context is updated either way.
C14_UpdateContextSends ==
    [][ last'.op = "updateContext"
        => (/\ last'.call = <<contextUpdateMessage(context')>>
            /\ context' = updatedContext(rendered, last'.partial)
            /\ IF PeerDocumentedAvailable
               THEN /\ Len(posted') = Len(posted) + 1
                    /\ IsStamped(posted'[Len(posted')].msg, last'.call[1])
                    /\ messages' = Append(messages, posted'[Len(posted')].msg)
               ELSE UNCHANGED <<posted, messages>>) ]_vars

\* Sequence s is an initial segment of sequence t.
IsPrefix(s, t) == Len(s) <= Len(t) /\ SubSeq(t, 1, Len(s)) = s

\* C15: the message log is append-only: across every step (send, accepted
\* receive, probe result, updateContext, re-render) the previous log is a
\* prefix of the new log.
C15_LogAppendOnly == [][IsPrefix(messages, messages')]_vars

\* A second, different envelope has been appended behind the first.
C15_Witness ==
    /\ Len(messages) = 2
    /\ messages[1] # messages[2]
    /\ last.op = "message"
    /\ messages[2] = last.data

\* C16: an accepted envelope (trusted origin, source "adk-ui") whose type is
\* neither ready nor error (agent_response, status_update,
\* navigation_request, unknown or missing) is appended to the log, leaves
\* connectionStatus, isConnected and the context unchanged and triggers no
\* outbound send.
C16_OtherTypesOnlyLogged ==
    [][ (/\ last'.op = "message"
         /\ last'.origin \in TrustedOrigins(adkUrl)
         /\ SaysAdkUi(last'.data)
         /\ DataType(last'.data) \notin {"ready", "error"})
        => (/\ messages' = Append(messages, last'.data)
            /\ UNCHANGED <<connectionStatus, isConnected, context>>
            /\ posted' = posted
            /\ last'.call = <<>>) ]_vars

\* From some point on every health check that completes is successful.
ChecksSucceedFromSomePointOn ==
    <>[][last'.op = "check" => Reachable(last'.outcome)]_vars

\* C17: the error state is never permanent: from every reachable state with
\* connectionStatus error an accepted ready envelope or a successful health
\* check moves it to connected, and, the probe timer being fair, if health
\* checks succeed from some point on the state eventually becomes connected
\* without any application call.
C17_ErrorRecoverable ==
    /\ [][ (/\ connectionStatus = "error"
            /\ \/ /\ last'.op = "message"
                  /\ last'.origin \in TrustedOrigins(adkUrl)
                  /\ last'.data = ReadyEnvelope
               \/ /\ last'.op = "check"
                  /\ Reachable(last'.outcome))
           => connectionStatus' = "connected" ]_vars
    /\ ChecksSucceedFromSomePointOn
       => (connectionStatus = "error" ~> connectionStatus = "connected")

\* C18: after the component using the hook has unmounted, the probe
\* interval timer is cancelled and the message listener is removed: no new
\* health check is started, and no later message event is logged or changes
\* connectionStatus.
C18_TeardownStopsProbeAndListener ==
    /\ [](~mounted => (timers = 0 /\ listeners = 0))
    /\ [][ ~mounted
           => (/\ last'.op \notin {"tick", "message"}
               /\ inflight' <= inflight
               /\ UNCHANGED <<messages, connectionStatus, isConnected>>) ]_vars

\* The hook has unmounted after it had logged a message, and a health check
\* that was in flight at that time has completed since.
C18_Witness ==
    /\ ~mounted
    /\ Len(messages) > 0
    /\ last.op = "check"

\* C19: for every configured adkUrl and observed origin the hook accepts the
\* origin iff it is the document's own origin, or adkUrl is an absolute URL
\* and the origin is that URL's origin (scheme, host and port), a path or
\* trailing slash on the URL notwithstanding; a root-relative adkUrl adds no
\* origin.
C19_OriginPolicy ==
    [][ (last'.op = "message" /\ SaysAdkUi(last'.data))
        => ((messages' # messages) <=> (last'.origin \in TrustedOrigins(adkUrl))) ]_vars

\* C20: a health check is Reachable only when the GET to adkUrl/health
\* returns HTTP 200; every other status, other 2xx such as 204 included, and
\* every transport failure yields Unreachable and so connectionStatus error.
C20_OnlyStatus200Reachable ==
    [][ last'.op = "check"
        => connectionStatus' =
             IF last'.outcome.settled = "fulfilled" /\ last'.outcome.status = 200
             THEN "connected" ELSE "error" ]_vars

\* C21: the peer handle of the hook starts unavailable and becomes available
\* once the embedding surface has loaded, so that from then on sendMessage,
\* updateContext and the ready handler dispatch and log an outbound
\* envelope.
C21_PeerHandleSetAfterLoad ==
    /\ (last.op = "mount" => ~iframeRef)
    /\ ((mounted /\ PeerDocumentedAvailable) => iframeRef)

\* C22: the disconnected status is reachable from every state: from each of
\* connected and error some sequence of events of the mounted hook brings
\* connectionStatus back to disconnected.  Stated over the fair runs, in
\* which the events of the hook keep occurring.
C22_DisconnectedReachableAgain ==
    [](connectionStatus # "disconnected"
       => <>(connectionStatus = "disconnected"))

\* C22 amended: disconnected is the initial status only; once
\* connectionStatus has left it, no event of the mounted hook brings it
\* back.
C22_DisconnectedNeverReentered ==
    [][connectionStatus # "disconnected"
       => connectionStatus' # "disconnected"]_vars

\* The status has left disconnected and has moved on between connected and
\* error since.
C22_Witness ==
    /\ connectionStatus = "error"
    /\ last.op = "check"
    /\ last.from = "connected"
    /\ Len(messages) > 0

\* C23: after a health check of AdkEmbed fails the component is in the
\* fallback state (isConnected false, error set, iframe not rendered,
\* onError called once for that failure); a later successful check, such as
\* one started by Retry, sets isConnected true and clears error, so that the
\* fallback is left and the iframe is rendered again.
C23_FallbackAndRecovery ==
    [][ (last'.op = "embedCheck" /\ mounted)
        => IF Reachable(last'.outcome)
           THEN /\ embed'.isConnected
                /\ embed'.error = "null"
                /\ embed'.frame # "none"
                /\ embed.frame = "none" => embed'.frame = "loading"
                /\ last'.onError = 0
           ELSE /\ ~embed'.isConnected
                /\ embed'.error # "null"
                /\ embed'.frame = "none"
                /\ last'.onError = 1 ]_vars

\* A successful check has just brought the iframe back (it loads anew)
\* after the fallback had replaced the earlier frame.
C23_Witness ==
    /\ last.op = "embedCheck"
    /\ embed.isConnected
    /\ embed.error = "null"
    /\ embed.frame = "loading"
    /\ ~embed.isLoading

\* C26: AdkEmbed forwards a message event to onMessage exactly once iff its
\* origin is trusted (the own origin, or the origin of an absolute adkUrl)
\* and its data.source is "adk-ui"; every other message event produces no
\* callback, whatever the message type and whatever isConnected.
C26_EmbedForwardsTrustedOnly ==
    [][ last'.op = "embedMessage"
        => last'.onMessage =
             IF last'.origin \in TrustedOrigins(adkUrl) /\ SaysAdkUi(last'.data)
             THEN 1 ELSE 0 ]_vars

\* An agent_response from the origin of a path-bearing adkUrl has been
\* forwarded while AdkEmbed was not connected.
C26_Witness ==
    /\ last.op = "embedMessage"
    /\ last.onMessage = 1
    /\ Len(adkUrl) > 1
    /\ last.origin = adkOrigin
    /\ DataType(last.data) = "agent_response"
    /\ ~embed.isConnected

\* C24: every started health check produces exactly one outcome and applies
\* exactly one connectionStatus assignment; a rejected fetch, a thrown error
\* or a non-success status never leaves the check as an exception.
C24_OneAssignmentPerCheck ==
    [][ last'.op = "check"
        => (/\ inflight' = inflight - 1
            /\ Len(last'.assigned) = 1
            /\ last'.assigned[1] \in {"connected", "error"}
            /\ mounted => connectionStatus' = last'.assigned[1]) ]_vars

\* A check whose fetch was rejected has finished and has set error over
\* connected.
C24_Witness ==
    /\ last.op = "check"
    /\ last.outcome.settled = "rejected"
    /\ last.from = "connected"
    /\ connectionStatus = "error"

\* C29: health-check results take effect in the order the checks were
\* started: when two checks overlap, the result of the earlier-started one
\* is never applied to connectionStatus after the result of a later-started
\* one.
C29_ResultsAppliedInStartOrder ==
    [][ (last'.op = "check" /\ mounted) => ~last'.late ]_vars

\* C30: a health check still in flight when the hook is torn down, or when
\* adkUrl changes and the connectivity effect is restarted, does not change
\* connectionStatus when it completes later.
C30_OrphanedCheckChangesNothing ==
    [][ (last'.op = "check" /\ (~mounted \/ last'.orphan))
        => connectionStatus' = connectionStatus ]_vars

\* C25: the context changes only through updateContext: inbound messages,
\* accepted or rejected and of any type, sendMessage calls and health-check
\* results leave it unchanged.
C25_ContextChangesOnlyByUpdateContext ==
    [][context' # context => last'.op = "updateContext"]_vars

\* An accepted error envelope has left an updated context in place.
C25_Witness ==
    /\ last.op = "message"
    /\ last.data = ErrorEnvelope
    /\ connectionStatus = "error"
    /\ "applicationId" \in DOMAIN context

\* C27: a health check is started at once when the hook starts, before the
\* first interval tick, and while the hook stays mounted further checks
\* keep being started on every tick, after Reachable and after Unreachable
\* results alike.
C27_ProbeKeepsRunning ==
    /\ [](last.op = "mount" => inflight = 1)
    /\ [](mounted => timers = 1)
    /\ []<>(last.op = "tick")
    /\ (last.op = "check" /\ connectionStatus = "error") ~> (last.op = "tick")
    /\ (last.op = "check" /\ connectionStatus = "connected") ~> (last.op = "tick")

\* A tick has started a check while the status was error and no other
\* check was in flight.
C27_Witness ==
    /\ last.op = "tick"
    /\ connectionStatus = "error"
    /\ inflight = 1

\* C28: in every reachable state the flag isConnected is true exactly when
\* connectionStatus is connected.
C28_FlagMatchesStatus ==
    isConnected <=> connectionStatus = "connected"

\* C31: at every instant at most one message listener of the hook is
\* registered on the window, across all re-subscriptions caused by changes
\* of adkUrl, context or sendMessage, so each accepted inbound envelope is
\* appended to the log exactly once and triggers at most one state
\* transition.
C31_AtMostOneListener ==
    /\ [](listeners <= 1)
    /\ [](mounted => listeners = 1)
    /\ [][ (last'.op = "message" /\ Accepted(adkUrl, last'.origin, last'.data))
           => messages' = Append(messages, last'.data) ]_vars

\* The listener has been re-subscribed for a changed adkUrl and a changed
\* context, and an accepted envelope has been logged once since.
C31_Witness ==
    /\ last.op = "message"
    /\ Len(messages) = 1
    /\ listeners = 1
    /\ probes.orphaned > 0
    /\ "applicationId" \in DOMAIN listener

\* C32: at every instant at most one probe interval timer of the hook is
\* active: whenever adkUrl changes the previous timer is cleared before the
\* new one is created, and none is active after teardown.
C32_AtMostOneTimer ==
    /\ timers <= 1
    /\ mounted => timers = 1
    /\ ~mounted => timers = 0

\* The hook has unmounted after adkUrl had changed, with a check of the
\* earlier effect still in flight.
C32_Witness ==
    /\ ~mounted
    /\ timers = 0
    /\ probes.orphaned > 0

\* C33: every entry of the log has source "parent-app" (an envelope that
\* sendMessage dispatched to the peer) or source "adk-ui" (an envelope
\* received from a trusted origin); no other entry ever appears, and no
\* envelope dropped for lack of a peer handle is in the log.
C33_LogSources ==
    /\ [](\A i \in 1..Len(messages) :
            /\ "source" \in DOMAIN messages[i]
            /\ messages[i].source \in {"parent-app", "adk-ui"}
            /\ messages[i].source = "parent-app"
               => \E j \in 1..Len(posted) : posted[j].msg = messages[i])
    /\ [][ messages' # messages
           => \/ /\ last'.op = "message"
                 /\ last'.origin \in TrustedOrigins(adkUrl)
                 /\ SaysAdkUi(last'.data)
              \/ Len(posted') > Len(posted) ]_vars

\* A send that carried a source of the caller's own was dropped for lack of
\* a peer handle and has left a log of one received envelope as it was.
C33_Witness ==
    /\ last.op = "sendMessage"
    /\ "source" \in DOMAIN last.msg
    /\ Len(messages) = 1
    /\ posted = <<>>

\* C34: a health-check result changes only connectionStatus: it appends
\* nothing to the log, sends no envelope, and leaves isConnected and the
\* context unchanged.
C34_CheckChangesOnlyStatus ==
    [][ last'.op = "check"
        => UNCHANGED <<messages, posted, isConnected, context>> ]_vars

\* A successful check has set connected and has left the flag, a logged
\* envelope and an updated context as they were.
C34_Witness ==
    /\ last.op = "check"
    /\ last.from = "error"
    /\ connectionStatus = "connected"
    /\ ~isConnected
    /\ Len(messages) > 0
    /\ "applicationId" \in DOMAIN context

\* C35: the hook and AdkEmbed apply the same origin policy: for every adkUrl
\* (root-relative, bare absolute origin, absolute URL with a path) and every
\* observed origin, the listener of the hook passes the origin check iff
\* the listener of AdkEmbed passes it.
C35_SameOriginPolicy ==
    \A o \in Origins :
        OriginAccepted(adkUrl, o) <=> embedOriginAccepted(adkUrl, o)

\* C36: in AdkEmbed at most one delayed initialize send is pending at any
\* time; a pending one is cancelled when isConnected, agentName,
\* sessionToken, userId or sendMessage changes or the component unmounts,
\* so that each period of being connected with unchanged props yields at
\* most one initialize envelope, and one that fires with no iframe window
\* available sends nothing.
C36_OneDelayedInitialize ==
    /\ [](embed.pending <= 1)
    /\ [](embed.pending > 0 => (mounted /\ embed.isConnected))
    /\ [][ last'.op = "embedProps"
           => embed'.pending = IF embed.isConnected THEN 1 ELSE 0 ]_vars
    /\ [][ last'.op = "embedInitialize"
           => (/\ ~embed.fired
               /\ last'.posted = IF embed.frame # "none" THEN 1 ELSE 0) ]_vars

\* The one timeout set after a change of props, which cancelled the one
\* before it, has fired and has posted the initialize envelope.
C36_Witness ==
    /\ last.op = "embedInitialize"
    /\ last.posted = 1
    /\ embed.fired
    /\ embed.pending = 0
    /\ embed.isConnected

====
